---- MODULE Spec2Model ----
(***************************************************************************)
(* Marble World Cup: the round / tournament state machine of App.tsx and   *)
(* the physics-side round logic of components/GameCanvas.tsx.              *)
(*                                                                         *)
(* One action is one handler together with the React re-render and the     *)
(* effects that the handler's state updates trigger (effects run in the    *)
(* order in which GameCanvas declares them).                               *)
(*                                                                         *)
(* Not represented: restartTrigger (App.tsx:22) is a counter whose only    *)
(* use is to make the round restart effect run; the effect is part of the  *)
(* actions that increment it.  Rendering, audio nodes and flag images are  *)
(* outside the model.                                                      *)
(***************************************************************************)
EXTENDS Integers, Sequences, FiniteSets, TLC

(***************************************************************************)
(* Bounds of the model.                                                    *)
(***************************************************************************)
\* Size of the roster INITIAL_COUNTRIES.
NumCountries == 3
\* The arena angle is kept as a number of rotation increments, modulo this
\* period (the source keeps an unbounded float).
RotationPeriod == 2
\* Container sizes <<clientWidth, clientHeight>> the viewport can take.
Viewports == {<<200, 200>>, <<200, 600>>}
\* Positions the physics integration can move a ball to.
Positions == {<<100, 100>>, <<100, 900>>}
\* Velocities <<x, y>> the physics integration (and the spawn) can give a ball.
Velocities == {<<3, -4>>}
\* Ball positions of the maintenance specification: inside the viewport and
\* beyond the buffer on the left, on the right, above and below.
MaintPositions ==
    {<<100, 100>>, <<-200, 100>>, <<500, 100>>, <<100, -200>>, <<100, 900>>}
\* Ball velocities of the maintenance specification (integer magnitudes
\* 0, 5, 15, 20 and 30, so that the rescaling of the cap is exact).
MaintVelocities == {<<0, 0>>, <<3, 4>>, <<9, -12>>, <<12, 16>>, <<-18, 24>>}
\* x components of the nudge force, in units of 0.0001
\* ((Math.random() - 0.5) * 0.001 lies in [-0.0005, 0.0005)).
NudgeXs == {-5, 0, 4}
\* GAME_CONFIG values of the configuration specification.
ConfigValues == -1..1

(***************************************************************************)
(* Configuration (GAME_CONFIG and INITIAL_COUNTRIES of constants.ts).  The *)
(* champion threshold and the champion quota are kept small, as bounds of  *)
(* the model, below the roster size.                                       *)
(***************************************************************************)
WINS_TO_CHAMPION == 2
MAX_CHAMPIONS_SHOWN == 2
\* the angular width of the gap of the arena, in degrees
GAP_SIZE_DEGREES == 45
INITIAL_COUNTRIES ==
    [i \in 1..NumCountries |->
        [id |-> i, code |-> <<"code", i>>, name |-> <<"name", i>>]]

\* lastWinner = null
NoWinner == 0

VARIABLES
    \* ---- configuration
    GAME_CONFIG,      \* [WINS_TO_CHAMPION, MAX_CHAMPIONS_SHOWN,
                      \*  GAP_SIZE_DEGREES], never written
    \* ---- App state
    countries,        \* master roster: Seq of [id, code, name, wins, isChampion]
    canvasCountries,  \* snapshot handed to GameCanvas
    champions,        \* Seq of ChampionRecord [countryId, name, code, wonAt]
    activeIds,        \* Seq of ids shown as alive
    lastWinner,
    isGameOver,
    hasStarted,
    soundEnabled,
    timers,           \* pending celebration timeouts, in scheduling order;
                      \* each holds its closure [updatedCountries, updatedChampions]
                      \* and, as history, whether a restart ran since (stale)
    now,              \* Date.now(), counted in elapsed celebration delays
    \* ---- GameCanvas state
    balls,            \* ball bodies of engine.world: Seq of [id, pos, vel]
    roundCompleted,   \* roundCompletedRef.current
    runnerEnabled,    \* runnerRef.current.enabled
    width, height,    \* sceneState.current.width / height
    rotationAngle,    \* local of the engine effect
    sceneRotation,    \* sceneState.current.rotation
    arenaAngle,       \* arenaBodyRef.current.angle
    arenaGeom,        \* <<cx, cy, radius>> of arenaBodyRef.current
    arenaCount,       \* number of arena bodies in engine.world
    \* ---- history
    roundWinCalls,    \* calls of onRoundWinRef.current since the last spawn
    spawned,          \* the last step ran the round restart effect
    stray,            \* the last step called handleRoundWin with an unknown id
    maint,            \* per ball of the last tick, what the maintenance pass
                      \* did: [id, pos, velBefore, vel, force, removed]
                      \* (recorded by the maintenance specification only)
    calls,            \* callbacks the last tick invoked, in order:
                      \* Seq of [fn, arg] (maintenance specification only)
    contacts,         \* pairs handled by the last collisionStart event:
                      \* Seq of [a, b, forceA, forceB, impact]
    arenaParts,       \* parts of the arena createArena built last
                      \* (recorded by the arena specification only)
    \* ---- closures of the engine setup effect
    enginePaused      \* isPaused of the render the engine effect last ran in

appVars == <<countries, canvasCountries, champions, activeIds, lastWinner,
             isGameOver, hasStarted, soundEnabled, timers, now>>
canvasVars == <<balls, roundCompleted, runnerEnabled, width, height,
                rotationAngle, sceneRotation, arenaAngle>>
histVars == <<roundWinCalls, spawned>>
arenaVars == <<arenaGeom, arenaCount>>
probeVars == <<calls, contacts, arenaParts>>
vars == <<GAME_CONFIG, appVars, canvasVars, arenaVars, histVars, stray, maint,
          probeVars, enginePaused>>

(***************************************************************************)
(* Helpers                                                                 *)
(***************************************************************************)
\* INITIAL_COUNTRIES.map(c => ({ ...c, wins: 0, isChampion: false }))
ResetCountries ==
    [i \in 1..NumCountries |->
        [id |-> INITIAL_COUNTRIES[i].id, code |-> INITIAL_COUNTRIES[i].code,
         name |-> INITIAL_COUNTRIES[i].name, wins |-> 0, isChampion |-> FALSE]]

Ids(cs) == [i \in 1..Len(cs) |-> cs[i].id]

\* a pause flag that forgets the end of the tournament
IsPaused_StartOnly(started, over) == ~started

\* isPaused={!hasStarted || isGameOver}
IsPaused(started, over) == ~started \/ over

buffer == 150

\* sceneState cx, cy
Cx(w) == w \div 2
Cy(h) == h \div 2

Min(a, b) == IF a < b THEN a ELSE b
Max(a, b) == IF a > b THEN a ELSE b

headerClearance == 160

\* sceneState radius
Radius(w, h) ==
    LET minDimension == Min(w, h - headerClearance \div 2)
    IN  Max(60, minDimension \div 2 - 20)

\* Angles of createArena are counted in units of 0.000001 rad, rounded
\* down.  Math.PI:
Pi == 3141592
TwoPi == 2 * Pi

\* const segments = 60
segments == 60

\* const step = (2 * Math.PI) / segments: the quotient is rounded
ArenaStep == TwoPi \div segments

\* const gapSizeRad = (GAME_CONFIG.GAP_SIZE_DEGREES * Math.PI) / 180
GapSizeRad(gapDegrees) == (gapDegrees * Pi) \div 180

\* the wall the loop of createArena builds at angle a: isGap = a < gapSizeRad
\* makes it a sensor with collisionFilter {mask: 0}; otherwise the body
\* keeps the default mask (all bits set)
ArenaPart(a, gapSizeRad) ==
    [a |-> a, isSensor |-> a < gapSizeRad,
     mask |-> IF a < gapSizeRad THEN 0 ELSE -1]

RECURSIVE ArenaLoop(_, _)
\* for (let a = 0; a < 2 * Math.PI; a += step) parts.push(wall), from a on.
\* The loop adds the rounded step to a and tests the sum against 2 * Math.PI:
\* after `segments` additions the sum is still below it (in doubles,
\* 6.283185307179582 < 6.283185307179586), so the body runs once more.
ArenaLoop(a, gapSizeRad) ==
    IF a < TwoPi
    THEN <<ArenaPart(a, gapSizeRad)>> \o ArenaLoop(a + ArenaStep, gapSizeRad)
    ELSE <<>>

\* parts of the arena createArena builds; each stands at polar angle a on
\* the circle of the arena's radius around its centre
createArena(gapDegrees) == ArenaLoop(0, GapSizeRad(gapDegrees))

\* the geometry createArena is called with by handleResize
ArenaGeometry(w, h) == <<Cx(w), Cy(h), Radius(w, h)>>

\* a resize that builds the new arena unrotated
CurrentAngle_Zero(hasArena, bodyAngle, sceneRot) == 0

\* currentAngle of handleResize
CurrentAngle(hasArena, bodyAngle, sceneRot) ==
    IF hasArena THEN bodyAngle ELSE sceneRot

\* a resize that leaves the old arena in the world
ArenasAfterResize_NoRemove(inWorld, oldInWorld) == inWorld + 1

\* arena bodies in the world after handleResize: the arena of
\* arenaBodyRef.current is removed if the world holds it, the new one is added
ArenasAfterResize(inWorld, oldInWorld) ==
    (IF oldInWorld THEN inWorld - 1 ELSE inWorld) + 1

\* the out-of-bounds test of the tick
OutOfBounds(ball, w, h) ==
    \/ ball.pos[2] > h + buffer
    \/ ball.pos[1] < -buffer
    \/ ball.pos[1] > w + buffer

(***************************************************************************)
(* Per-ball maintenance of the tick.  Velocities are integer vectors; the  *)
(* magnitude is the integer square root, exact on the velocities used.     *)
(***************************************************************************)
MAX_SPEED == 15

\* ball.speed squared
Speed2(v) == v[1] * v[1] + v[2] * v[2]

\* Matter.Vector.magnitude
Magnitude(v) ==
    CHOOSE r \in 0..Speed2(v) : r * r <= Speed2(v) /\ (r + 1) * (r + 1) > Speed2(v)

\* a cap that clamps each component on its own
ClampVelocity_PerComponent(v) ==
    IF Speed2(v) > MAX_SPEED * MAX_SPEED
    THEN <<Max(-MAX_SPEED, Min(MAX_SPEED, v[1])), Max(-MAX_SPEED, Min(MAX_SPEED, v[2]))>>
    ELSE v

\* Cap Velocity: mult(normalise(ball.velocity), MAX_SPEED) when
\* ball.speed > MAX_SPEED
ClampVelocity(v) ==
    IF Speed2(v) > MAX_SPEED * MAX_SPEED
    THEN <<(v[1] * MAX_SPEED) \div Magnitude(v), (v[2] * MAX_SPEED) \div Magnitude(v)>>
    ELSE v

\* ball.speed < 0.5, on the velocity the cap left
TooSlow(v) == 4 * Speed2(v) < 1

\* a nudge given to every ball
NudgeForce_Always(v, fx) == <<fx, -10>>

\* the force applyForce adds to the ball, in units of 0.0001
NudgeForce(v, fx) == IF TooSlow(v) THEN <<fx, -10>> ELSE <<0, 0>>

\* the pass of balls.forEach over the balls bs of the world; fx gives the
\* random x component of the nudge of each ball that is nudged
Maintained(bs, fx, w, h) ==
    [i \in 1..Len(bs) |->
        [id |-> bs[i].id,
         pos |-> bs[i].pos,
         velBefore |-> bs[i].vel,
         vel |-> ClampVelocity(bs[i].vel),
         force |-> NudgeForce(ClampVelocity(bs[i].vel),
                              IF i \in DOMAIN fx THEN fx[i] ELSE 0),
         removed |-> OutOfBounds(bs[i], w, h)]]

\* The guard of playCollisionSound and playEliminationSound, with an
\* AudioContext present: paused and sound are the isPaused and soundEnabled
\* of the render whose functions the engine's handlers closed over.
CuePlays(paused, sound) == ~(paused \/ ~sound)

\* an elimination flag that every ball of the pass overwrites
EliminationHappened_LastBall(pass) ==
    pass # <<>> /\ pass[Len(pass)].removed

\* eliminationHappened at the end of the forEach: set by any removal
EliminationHappened(pass) ==
    \E i \in 1..Len(pass) : pass[i].removed

\* a handler that reports the winner before it reports the elimination
TickCalls_WinFirst(activeBallIds, eliminationHappened, winnerId) ==
    (IF winnerId # NoWinner
     THEN <<[fn |-> "onRoundWin", arg |-> <<winnerId>>]>>
     ELSE <<>>)
    \o (IF eliminationHappened
        THEN <<[fn |-> "onElimination", arg |-> activeBallIds]>>
        ELSE <<>>)

\* The callbacks of one beforeUpdate, in the order they are invoked:
\* onElimination(activeBallIds) if a ball was removed, then onRoundWin
TickCalls(activeBallIds, eliminationHappened, winnerId) ==
    (IF eliminationHappened
     THEN <<[fn |-> "onElimination", arg |-> activeBallIds]>>
     ELSE <<>>)
    \o (IF winnerId # NoWinner
        THEN <<[fn |-> "onRoundWin", arg |-> <<winnerId>>]>>
        ELSE <<>>)

\* an elimination callback that is skipped when no ball is left
PublishedActiveIds_SkipEmpty(shown, activeBallIds, eliminationHappened) ==
    IF eliminationHappened /\ Len(activeBallIds) > 0 THEN activeBallIds ELSE shown

\* activeIds after the tick: onElimination(activeBallIds) => setActiveIds
PublishedActiveIds(shown, activeBallIds, eliminationHappened) ==
    IF eliminationHappened THEN activeBallIds ELSE shown

\* a spawn list that keeps the champions in play
EligibleCountries_All(cs) == cs

\* countries.filter(c => !c.isChampion)
EligibleCountries(cs) == SelectSeq(cs, LAMBDA c : ~c.isChampion)

\* a spawn that puts a ball into the world for every country of the roster
SpawnedBalls_EveryCountry(residual, cs, w, h, v) ==
    [i \in 1..Len(cs) |->
        [id |-> cs[i].id, pos |-> <<Cx(w), Cy(h)>>,
         vel |-> IF i \in DOMAIN v THEN v[i] ELSE <<3, -4>>]]

\* a spawn that leaves the residual balls in the world
SpawnedBalls_KeepResidual(residual, cs, w, h, v) ==
    LET elig == SelectSeq(cs, LAMBDA c : ~c.isChampion)
    IN  residual \o [i \in 1..Len(elig) |->
                        [id |-> elig[i].id, pos |-> <<Cx(w), Cy(h)>>, vel |-> v[i]]]

\* the bodies the round restart effect leaves in the world: the residual
\* balls are removed, then one ball per eligible country is added, with the
\* random velocity v[i]
SpawnedBalls(residual, cs, w, h, v) ==
    LET kept == SelectSeq(residual, LAMBDA b : FALSE)
        elig == EligibleCountries(cs)
    IN  kept \o [i \in 1..Len(elig) |->
                    [id |-> elig[i].id, pos |-> <<Cx(w), Cy(h)>>, vel |-> v[i]]]

\* a round restart that leaves the latch as it is
RoundRestartEffect_KeepLatch(residual, cs) ==
    /\ roundCompleted' = roundCompleted
    /\ \E v \in [1..Len(cs) -> Velocities] :
        balls' = SpawnedBalls(residual, cs, width, height, v)
    /\ activeIds' = Ids(EligibleCountries(cs))
    /\ roundWinCalls' = 0
    /\ spawned' = TRUE

\* Round restart effect (deps [triggerRestart, countries]) run against the
\* world `residual` with roster cs.
RoundRestartEffect(residual, cs) ==
    /\ roundCompleted' = FALSE
    /\ \E v \in [1..Len(cs) -> Velocities] :
        balls' = SpawnedBalls(residual, cs, width, height, v)
    /\ activeIds' = Ids(EligibleCountries(cs))
    /\ roundWinCalls' = 0
    /\ spawned' = TRUE

(***************************************************************************)
(* handleRoundWin                                                          *)
(***************************************************************************)
\* a lookup that falls back to the first contestant
Winner_Fallback(cs, winnerId) ==
    LET hits == SelectSeq(cs, LAMBDA c : c.id = winnerId)
    IN  IF Len(hits) = 0 THEN cs[1] ELSE hits[1]

Winner(cs, winnerId) ==
    LET hits == SelectSeq(cs, LAMBDA c : c.id = winnerId)
    IN  IF Len(hits) = 0 THEN [id |-> NoWinner] ELSE hits[1]

\* a roster update that restarts the count of a new champion
UpdatedCountries_ResetOnPromotion(cs, winnerId) ==
    LET hits == SelectSeq(cs, LAMBDA c : c.id = winnerId)
        nextWins == hits[1].wins + 1
        isNowChampion == nextWins >= GAME_CONFIG.WINS_TO_CHAMPION
    IN  [i \in 1..Len(cs) |->
            IF cs[i].id = winnerId
            THEN [cs[i] EXCEPT !.wins = IF isNowChampion THEN 0 ELSE nextWins,
                               !.isChampion = cs[i].isChampion \/ isNowChampion]
            ELSE cs[i]]

UpdatedCountries(cs, winnerId) ==
    LET winner == Winner(cs, winnerId)
        nextWins == winner.wins + 1
        isNowChampion == nextWins >= GAME_CONFIG.WINS_TO_CHAMPION
    IN  [i \in 1..Len(cs) |->
            IF cs[i].id = winnerId
            THEN [cs[i] EXCEPT !.wins = nextWins,
                               !.isChampion = cs[i].isChampion \/ isNowChampion]
            ELSE cs[i]]

\* a champion record pushed for every round winner
UpdatedChampions_EveryWin(chs, cs, winnerId, t) ==
    LET hits == SelectSeq(cs, LAMBDA c : c.id = winnerId)
        winner == hits[1]
    IN  Append(chs, [countryId |-> winner.id, name |-> winner.name,
                     code |-> winner.code, wonAt |-> t])

\* a promotion test that needs one win more than the threshold
UpdatedChampions_StrictThreshold(chs, cs, winnerId, t) ==
    LET hits == SelectSeq(cs, LAMBDA c : c.id = winnerId)
        winner == hits[1]
        nextWins == winner.wins + 1
        isNewChampion == nextWins > GAME_CONFIG.WINS_TO_CHAMPION /\ ~winner.isChampion
    IN  IF isNewChampion
        THEN Append(chs, [countryId |-> winner.id, name |-> winner.name,
                          code |-> winner.code, wonAt |-> t])
        ELSE chs

\* a champion list that grows at the front (unshift for push)
UpdatedChampions_Prepend(chs, cs, winnerId, t) ==
    LET hits == SelectSeq(cs, LAMBDA c : c.id = winnerId)
        winner == hits[1]
        nextWins == winner.wins + 1
        isNewChampion == nextWins >= GAME_CONFIG.WINS_TO_CHAMPION /\ ~winner.isChampion
    IN  IF isNewChampion
        THEN <<[countryId |-> winner.id, name |-> winner.name,
                code |-> winner.code, wonAt |-> t]>> \o chs
        ELSE chs

UpdatedChampions(chs, cs, winnerId, t) ==
    LET winner == Winner(cs, winnerId)
        nextWins == winner.wins + 1
        isNowChampion == nextWins >= GAME_CONFIG.WINS_TO_CHAMPION
        isNewChampion == isNowChampion /\ ~winner.isChampion
    IN  IF isNewChampion
        THEN Append(chs, [countryId |-> winner.id, name |-> winner.name,
                          code |-> winner.code, wonAt |-> t])
        ELSE chs

\* a handler that schedules the celebration timeout twice
HandleRoundWin_TwoTimers(winnerId) ==
    IF isGameOver \/ Winner(countries, winnerId).id = NoWinner
    THEN UNCHANGED <<countries, champions, lastWinner, timers>>
    ELSE /\ lastWinner' = winnerId
         /\ countries' = UpdatedCountries(countries, winnerId)
         /\ champions' = UpdatedChampions(champions, countries, winnerId, now)
         /\ timers' = timers \o
                [i \in 1..2 |->
                    [updatedCountries |-> UpdatedCountries(countries, winnerId),
                     updatedChampions |->
                        UpdatedChampions(champions, countries, winnerId, now),
                     stale |-> FALSE]]

\* handleRoundWin
HandleRoundWin(winnerId) ==
    IF isGameOver \/ Winner(countries, winnerId).id = NoWinner
    THEN UNCHANGED <<countries, champions, lastWinner, timers>>
    ELSE /\ lastWinner' = winnerId
         /\ countries' = UpdatedCountries(countries, winnerId)
         /\ champions' = UpdatedChampions(champions, countries, winnerId, now)
         /\ timers' = Append(timers,
                [updatedCountries |-> UpdatedCountries(countries, winnerId),
                 updatedChampions |->
                    UpdatedChampions(champions, countries, winnerId, now),
                 stale |-> FALSE])

(***************************************************************************)
(* Initial state: App and GameCanvas mounted, every mount effect run.      *)
(***************************************************************************)
\* the mounted program under the configuration cfg, but for arenaParts
MountedApp(cfg) ==
    /\ GAME_CONFIG = cfg
    /\ countries = ResetCountries
    /\ canvasCountries = ResetCountries
    /\ champions = <<>>
    /\ lastWinner = NoWinner
    /\ isGameOver = FALSE
    /\ hasStarted = FALSE
    /\ soundEnabled = TRUE
    /\ timers = <<>>
    /\ now = 0
    /\ \E v \in Viewports : width = v[1] /\ height = v[2]
    /\ runnerEnabled = ~IsPaused(FALSE, FALSE)
    /\ rotationAngle = 0
    /\ sceneRotation = 0
    /\ arenaAngle = CurrentAngle(FALSE, 0, 0)
    /\ arenaGeom = ArenaGeometry(width, height)
    /\ arenaCount = ArenasAfterResize(0, FALSE)
    /\ roundCompleted = FALSE
    /\ \E v \in [1..NumCountries -> Velocities] :
        balls = SpawnedBalls(<<>>, ResetCountries, width, height, v)
    /\ activeIds = Ids(EligibleCountries(ResetCountries))
    /\ roundWinCalls = 0
    /\ spawned = TRUE
    /\ stray = FALSE
    /\ maint = <<>>
    /\ calls = <<>>
    /\ contacts = <<>>
    /\ enginePaused = IsPaused(FALSE, FALSE)

\* the mounted program under the configuration cfg
Mounted(cfg) == MountedApp(cfg) /\ arenaParts = <<>>

Init ==
    Mounted([WINS_TO_CHAMPION |-> WINS_TO_CHAMPION,
             MAX_CHAMPIONS_SHOWN |-> MAX_CHAMPIONS_SHOWN,
             GAP_SIZE_DEGREES |-> GAP_SIZE_DEGREES])

(***************************************************************************)
(* Actions                                                                 *)
(***************************************************************************)
\* a start handler that spawns the first round
StartGame_Spawns ==
    /\ ~hasStarted
    /\ hasStarted' = TRUE
    /\ runnerEnabled' = ~IsPaused(TRUE, isGameOver)
    /\ RoundRestartEffect(balls, canvasCountries)
    /\ UNCHANGED <<countries, canvasCountries, champions, lastWinner,
                   isGameOver, soundEnabled, timers, now>>
    /\ UNCHANGED <<width, height, rotationAngle, sceneRotation, arenaAngle>>
    /\ stray' = FALSE
    /\ UNCHANGED <<GAME_CONFIG, arenaVars, maint, probeVars, enginePaused>>

\* handleStartGame, reachable through the start overlay (!hasStarted)
StartGame ==
    /\ ~hasStarted
    /\ hasStarted' = TRUE
    /\ runnerEnabled' = ~IsPaused(TRUE, isGameOver)
    /\ UNCHANGED <<countries, canvasCountries, champions, activeIds, lastWinner,
                   isGameOver, soundEnabled, timers, now>>
    /\ UNCHANGED <<balls, roundCompleted, width, height, rotationAngle,
                   sceneRotation, arenaAngle, roundWinCalls>>
    /\ spawned' = FALSE
    /\ stray' = FALSE
    /\ UNCHANGED <<GAME_CONFIG, arenaVars, maint, probeVars, enginePaused>>

\* a tick that calls onRoundWin although the round is already locked
RoundWinner_NoLatch(activeBallIds, completed) ==
    IF Len(activeBallIds) = 1 THEN activeBallIds[1] ELSE NoWinner

\* a tick that declares the first of the last two balls the winner
RoundWinner_FirstOfFew(activeBallIds, completed) ==
    IF ~completed /\ Len(activeBallIds) \in 1..2 /\ activeBallIds[1] # NoWinner
    THEN activeBallIds[1]
    ELSE NoWinner

\* STRICT ROUND WINNER LOGIC of the tick: the id onRoundWin is called with,
\* NoWinner when it is not called
RoundWinner(activeBallIds, completed) ==
    IF ~completed /\ Len(activeBallIds) = 1 /\ activeBallIds[1] # NoWinner
    THEN activeBallIds[1]
    ELSE NoWinner

\* A handler registered on 'afterUpdate': the engine integrates first, and
\* the handler reads what the step of this tick produced.
TickBody_AfterUpdate(record) ==
    /\ runnerEnabled
    /\ rotationAngle' = (rotationAngle + 1) % RotationPeriod
    /\ arenaAngle' = rotationAngle'
    /\ sceneRotation' = rotationAngle'
    /\ \E step \in [1..Len(balls) -> Positions \X Velocities] :
        \E stepped \in {[i \in 1..Len(balls) |->
                            [id |-> balls[i].id, pos |-> step[i][1],
                             vel |-> step[i][2]]]} :
        \E fx \in [{i \in 1..Len(stepped) :
                        TooSlow(ClampVelocity(stepped[i].vel))} -> NudgeXs] :
        \E pass \in {Maintained(stepped, fx, width, height)} :
        \E active \in {SelectSeq(pass, LAMBDA b : ~b.removed)} :
        LET activeBallIds == [i \in 1..Len(active) |-> active[i].id]
            eliminationHappened == EliminationHappened(pass)
            winnerId == RoundWinner(activeBallIds, roundCompleted)
        IN  /\ IF winnerId # NoWinner
               THEN /\ roundCompleted' = TRUE
                    /\ roundWinCalls' = roundWinCalls + 1
                    /\ HandleRoundWin(winnerId)
               ELSE UNCHANGED <<roundCompleted, roundWinCalls, countries,
                                champions, lastWinner, timers>>
            /\ activeIds' = PublishedActiveIds(activeIds, activeBallIds,
                                               eliminationHappened)
            /\ balls' = [i \in 1..Len(active) |->
                            [id |-> active[i].id, pos |-> active[i].pos,
                             vel |-> active[i].vel]]
            /\ maint' = IF record THEN pass ELSE maint
            /\ calls' = IF record
                        THEN TickCalls(activeBallIds, eliminationHappened,
                                       winnerId)
                        ELSE calls
    /\ contacts' = <<>>
    /\ spawned' = FALSE
    /\ stray' = FALSE
    /\ UNCHANGED <<canvasCountries, isGameOver, hasStarted, soundEnabled, now,
                   runnerEnabled, width, height>>
    /\ UNCHANGED <<GAME_CONFIG, arenaVars, arenaParts, enginePaused>>

\* One Engine.update of the runner.  The handler is registered on
\* 'beforeUpdate', which Engine.update fires before it integrates: the
\* handler works on the world as the previous step left it, and then the
\* integration step of the engine moves the balls it kept.  With record,
\* the result of the maintenance pass and the callbacks invoked are kept in
\* maint and calls.
TickBody(record) ==
    /\ runnerEnabled
    /\ rotationAngle' = (rotationAngle + 1) % RotationPeriod
    /\ arenaAngle' = rotationAngle'
    /\ sceneRotation' = rotationAngle'
    /\ \E fx \in [{i \in 1..Len(balls) : TooSlow(ClampVelocity(balls[i].vel))}
                    -> NudgeXs] :
        \E pass \in {Maintained(balls, fx, width, height)} :
        \E active \in {SelectSeq(pass, LAMBDA b : ~b.removed)} :
        LET activeBallIds == [i \in 1..Len(active) |-> active[i].id]
            eliminationHappened == EliminationHappened(pass)
            winnerId == RoundWinner(activeBallIds, roundCompleted)
        IN  /\ IF winnerId # NoWinner
               THEN /\ roundCompleted' = TRUE
                    /\ roundWinCalls' = roundWinCalls + 1
                    /\ HandleRoundWin(winnerId)
               ELSE UNCHANGED <<roundCompleted, roundWinCalls, countries,
                                champions, lastWinner, timers>>
            /\ activeIds' = PublishedActiveIds(activeIds, activeBallIds,
                                               eliminationHappened)
            /\ \E moved \in [1..Len(active) -> Positions \X Velocities] :
                 balls' = [i \in 1..Len(active) |->
                             [id |-> active[i].id, pos |-> moved[i][1],
                              vel |-> moved[i][2]]]
            /\ maint' = IF record THEN pass ELSE maint
            /\ calls' = IF record
                        THEN TickCalls(activeBallIds, eliminationHappened,
                                       winnerId)
                        ELSE calls
    /\ contacts' = <<>>
    /\ spawned' = FALSE
    /\ stray' = FALSE
    /\ UNCHANGED <<canvasCountries, isGameOver, hasStarted, soundEnabled, now,
                   runnerEnabled, width, height>>
    /\ UNCHANGED <<GAME_CONFIG, arenaVars, arenaParts, enginePaused>>

Tick == TickBody(FALSE)

\* a quota test that is off by one
TournamentComplete_OffByOne(updatedChampions) ==
    Len(updatedChampions) > GAME_CONFIG.MAX_CHAMPIONS_SHOWN

\* updatedChampions.length >= GAME_CONFIG.MAX_CHAMPIONS_SHOWN
TournamentComplete(updatedChampions) ==
    Len(updatedChampions) >= GAME_CONFIG.MAX_CHAMPIONS_SHOWN

\* The celebration timeout scheduled by handleRoundWin fires.
CelebrationTimer ==
    /\ Len(timers) > 0
    /\ LET t == Head(timers)
       IN  /\ timers' = Tail(timers)
           /\ lastWinner' = NoWinner
           /\ now' = now + 1
           /\ IF TournamentComplete(t.updatedChampions)
              THEN /\ isGameOver' = TRUE
                   /\ runnerEnabled' = ~IsPaused(hasStarted, TRUE)
                   /\ spawned' = FALSE
                   /\ UNCHANGED <<canvasCountries, activeIds, balls,
                                  roundCompleted, roundWinCalls>>
              ELSE /\ canvasCountries' = t.updatedCountries
                   /\ RoundRestartEffect(balls, t.updatedCountries)
                   /\ UNCHANGED <<isGameOver, runnerEnabled>>
    /\ UNCHANGED <<countries, champions, hasStarted, soundEnabled>>
    /\ UNCHANGED <<width, height, rotationAngle, sceneRotation, arenaAngle>>
    /\ stray' = FALSE
    /\ UNCHANGED <<GAME_CONFIG, arenaVars, maint, probeVars, enginePaused>>

\* a restart that leaves the champion list as it is
HandleRestartGame_KeepChampions ==
    /\ countries' = ResetCountries
    /\ canvasCountries' = ResetCountries
    /\ champions' = champions
    /\ lastWinner' = NoWinner
    /\ isGameOver' = FALSE
    /\ now' = 0
    /\ runnerEnabled' = ~IsPaused(hasStarted, FALSE)
    /\ RoundRestartEffect(balls, ResetCountries)
    /\ timers' = [i \in 1..Len(timers) |-> [timers[i] EXCEPT !.stale = TRUE]]
    /\ UNCHANGED <<hasStarted, soundEnabled>>
    /\ UNCHANGED <<width, height, rotationAngle, sceneRotation, arenaAngle>>
    /\ stray' = FALSE
    /\ UNCHANGED <<GAME_CONFIG, arenaVars, maint, probeVars, enginePaused>>

\* a restart that resets the master roster and leaves the canvas its old one
HandleRestartGame_StaleCanvas ==
    /\ countries' = ResetCountries
    /\ canvasCountries' = canvasCountries
    /\ champions' = <<>>
    /\ lastWinner' = NoWinner
    /\ isGameOver' = FALSE
    /\ now' = 0
    /\ runnerEnabled' = ~IsPaused(hasStarted, FALSE)
    /\ RoundRestartEffect(balls, ResetCountries)
    /\ timers' = [i \in 1..Len(timers) |-> [timers[i] EXCEPT !.stale = TRUE]]
    /\ UNCHANGED <<hasStarted, soundEnabled>>
    /\ UNCHANGED <<width, height, rotationAngle, sceneRotation, arenaAngle>>
    /\ stray' = FALSE
    /\ UNCHANGED <<GAME_CONFIG, arenaVars, maint, probeVars, enginePaused>>

\* handleRestartGame
HandleRestartGame ==
    /\ countries' = ResetCountries
    /\ canvasCountries' = ResetCountries
    /\ champions' = <<>>
    /\ lastWinner' = NoWinner
    /\ isGameOver' = FALSE
    /\ now' = 0
    /\ runnerEnabled' = ~IsPaused(hasStarted, FALSE)
    /\ RoundRestartEffect(balls, ResetCountries)
    /\ timers' = [i \in 1..Len(timers) |-> [timers[i] EXCEPT !.stale = TRUE]]
    /\ UNCHANGED <<hasStarted, soundEnabled>>
    /\ UNCHANGED <<width, height, rotationAngle, sceneRotation, arenaAngle>>
    /\ stray' = FALSE
    /\ UNCHANGED <<GAME_CONFIG, arenaVars, maint, probeVars, enginePaused>>

\* The restart button of FinalScreen, rendered only when isGameOver.
RestartGame ==
    /\ isGameOver
    /\ HandleRestartGame

\* The sound toggle button: the engine setup effect (deps [soundEnabled])
\* is cleaned up and run again; its handleResize() fills the new world.
ToggleSound ==
    /\ soundEnabled' = ~soundEnabled
    /\ balls' = <<>>
    /\ runnerEnabled' = ~IsPaused(hasStarted, isGameOver)
    /\ arenaAngle' = CurrentAngle(TRUE, arenaAngle, sceneRotation)
    /\ arenaGeom' = ArenaGeometry(width, height)
    /\ arenaCount' = ArenasAfterResize(0, FALSE)
    /\ rotationAngle' = sceneRotation
    /\ UNCHANGED <<countries, canvasCountries, champions, activeIds, lastWinner,
                   isGameOver, hasStarted, timers, now>>
    /\ spawned' = FALSE
    /\ stray' = FALSE
    /\ UNCHANGED <<roundCompleted, width, height, sceneRotation, roundWinCalls>>
    /\ enginePaused' = IsPaused(hasStarted, isGameOver)
    /\ UNCHANGED <<GAME_CONFIG, maint, probeVars>>

\* window 'resize': handleResize.  With record, the parts of the arena it
\* creates are kept in arenaParts.
ResizeBody(record) ==
    /\ \E v \in Viewports :
        /\ <<width, height>> # v
        /\ width' = v[1]
        /\ height' = v[2]
    /\ arenaAngle' = CurrentAngle(TRUE, arenaAngle, sceneRotation)
    /\ arenaGeom' = ArenaGeometry(width', height')
    /\ arenaCount' = ArenasAfterResize(arenaCount, TRUE)
    /\ UNCHANGED appVars
    /\ spawned' = FALSE
    /\ stray' = FALSE
    /\ UNCHANGED <<balls, roundCompleted, runnerEnabled, rotationAngle,
                   sceneRotation, roundWinCalls>>
    /\ arenaParts' = IF record
                     THEN createArena(GAME_CONFIG.GAP_SIZE_DEGREES)
                     ELSE arenaParts
    /\ UNCHANGED <<GAME_CONFIG, maint, calls, contacts, enginePaused>>

Resize == ResizeBody(FALSE)

Next ==
    \/ StartGame
    \/ Tick
    \/ CelebrationTimer
    \/ RestartGame
    \/ ToggleSound
    \/ Resize

Spec == Init /\ [][Next]_vars

(***************************************************************************)
(* The same program with the user never touching the sound button, under   *)
(* fair scheduling: the runner keeps ticking while enabled, a pending      *)
(* timeout fires, and while balls are in the world the physics eventually  *)
(* carries one of them out of bounds.                                      *)
(***************************************************************************)
TickEscape ==
    /\ Tick
    /\ \E i \in 1..Len(balls') : OutOfBounds(balls'[i], width', height')

NextQuiet ==
    \/ StartGame
    \/ Tick
    \/ CelebrationTimer
    \/ RestartGame
    \/ Resize

FairSpec ==
    /\ Init
    /\ [][NextQuiet]_vars
    /\ WF_vars(Tick)
    /\ WF_vars(TickEscape)
    /\ WF_vars(CelebrationTimer)

(***************************************************************************)
(* The same program with handleRestartGame also invoked as the external    *)
(* restart command while one celebration timeout is pending.               *)
(***************************************************************************)
RestartDuringCelebration ==
    /\ ~isGameOver
    /\ Len(timers) = 1
    /\ HandleRestartGame

NextExt ==
    \/ Next
    \/ RestartDuringCelebration

SpecExt == Init /\ [][NextExt]_vars

(***************************************************************************)
(* The program (sound button left alone) with handleRoundWin also called,  *)
(* as the onRoundWin prop, with an id that no contestant of the roster     *)
(* carries.                                                                *)
(***************************************************************************)
UnknownIds == {NumCountries + 1}

StrayRoundWin ==
    /\ \E winnerId \in UnknownIds : HandleRoundWin(winnerId)
    /\ stray' = TRUE
    /\ spawned' = FALSE
    /\ UNCHANGED <<canvasCountries, activeIds, isGameOver, hasStarted,
                   soundEnabled, now, roundWinCalls>>
    /\ UNCHANGED <<canvasVars, GAME_CONFIG, arenaVars, maint, probeVars,
                   enginePaused>>

NextStray ==
    \/ NextQuiet
    \/ StrayRoundWin

SpecStray == Init /\ [][NextStray]_vars

(***************************************************************************)
(* The program mounted under any configuration of ConfigValues.            *)
(***************************************************************************)
InitConfig ==
    \E w \in ConfigValues, m \in ConfigValues :
        Mounted([WINS_TO_CHAMPION |-> w, MAX_CHAMPIONS_SHOWN |-> m,
                 GAP_SIZE_DEGREES |-> GAP_SIZE_DEGREES])

SpecConfig == InitConfig /\ [][Next]_vars

(***************************************************************************)
(* The maintenance pass of the tick as a function of the balls it finds:   *)
(* a started round with two balls left, at any of MaintPositions with any  *)
(* of MaintVelocities, and the runner ticking.                             *)
(***************************************************************************)
InitMaint ==
    /\ GAME_CONFIG = [WINS_TO_CHAMPION |-> WINS_TO_CHAMPION,
                      MAX_CHAMPIONS_SHOWN |-> MAX_CHAMPIONS_SHOWN,
                      GAP_SIZE_DEGREES |-> GAP_SIZE_DEGREES]
    /\ countries = ResetCountries
    /\ canvasCountries = ResetCountries
    /\ champions = <<>>
    /\ lastWinner = NoWinner
    /\ isGameOver = FALSE
    /\ hasStarted = TRUE
    /\ soundEnabled = TRUE
    /\ timers = <<>>
    /\ now = 0
    /\ \E v \in Viewports : width = v[1] /\ height = v[2]
    /\ runnerEnabled = ~IsPaused(TRUE, FALSE)
    /\ rotationAngle = 0
    /\ sceneRotation = 0
    /\ arenaAngle = 0
    /\ arenaGeom = ArenaGeometry(width, height)
    /\ arenaCount = 1
    /\ roundCompleted = FALSE
    /\ \E p1 \in MaintPositions, p2 \in MaintPositions,
          v1 \in MaintVelocities, v2 \in MaintVelocities :
        balls = <<[id |-> INITIAL_COUNTRIES[1].id, pos |-> p1, vel |-> v1],
                  [id |-> INITIAL_COUNTRIES[2].id, pos |-> p2, vel |-> v2]>>
    /\ activeIds = <<INITIAL_COUNTRIES[1].id, INITIAL_COUNTRIES[2].id>>
    /\ roundWinCalls = 0
    /\ spawned = FALSE
    /\ stray = FALSE
    /\ maint = <<>>
    /\ calls = <<>>
    /\ contacts = <<>>
    /\ arenaParts = <<>>
    /\ enginePaused \in BOOLEAN

MaintTick == TickBody(TRUE)

SpecMaint == InitMaint /\ [][MaintTick]_vars

(***************************************************************************)
(* The collisionStart handler.  A force is kept as the vector it points    *)
(* along and its magnitude in units of 0.0001, so that normalise and mult  *)
(* are exact.                                                              *)
(***************************************************************************)
\* forceMagnitude = 0.012, in units of 0.0001
forceMagnitude == 120

VecSub(v, u) == <<v[1] - u[1], v[2] - u[2]>>

\* Matter.Vector.normalise: the unit vector along v, the zero vector for 0
Normalise(v) ==
    [along |-> v, mag |-> IF v = <<0, 0>> THEN 0 ELSE 1]

\* Matter.Vector.mult of a normalised vector by the scalar k
Mult(n, k) ==
    [along |-> IF k < 0 THEN <<-n.along[1], -n.along[2]>> ELSE n.along,
     mag |-> n.mag * (IF k < 0 THEN -k ELSE k)]

NoForce == [along |-> <<0, 0>>, mag |-> 0]

\* the body of the world for the i-th ball, labelled `ball-${country.id}`
BallBody(i) ==
    [label |-> <<"ball-", balls[i].id>>, position |-> balls[i].pos,
     velocity |-> balls[i].vel]

\* a solid part of the arena: Bodies.rectangle keeps the default label
WallBody ==
    [label |-> <<"Rectangle Body", 0>>,
     position |-> <<arenaGeom[1] - arenaGeom[3], arenaGeom[2]>>,
     velocity |-> <<0, 0>>]

\* the bodies that can be in a pair of a collisionStart event
WorldBodies == {BallBody(i) : i \in 1..Len(balls)} \cup {WallBody}

\* body.label.startsWith('ball-')
IsBall(body) == body.label[1] = "ball-"

\* a handler that pushes whenever a ball is involved
BallToBall_Either(bodyA, bodyB) == IsBall(bodyA) \/ IsBall(bodyB)

\* the test of the handler for 'Ball-to-Ball Collisions'
BallToBall(bodyA, bodyB) == IsBall(bodyA) /\ IsBall(bodyB)

\* playCollisionSound(impact): below the threshold of 1.5 nothing plays
ImpactCue(relativeVelocity, paused, sound) ==
    CuePlays(paused, sound) /\ ~(4 * Speed2(relativeVelocity) < 9)

\* what the handler does with one pair of event.pairs
HandlePair(bodyA, bodyB) ==
    IF BallToBall(bodyA, bodyB)
    THEN LET relativeVelocity == VecSub(bodyA.velocity, bodyB.velocity)
             diff == VecSub(bodyB.position, bodyA.position)
             normal == Normalise(diff)
         IN  [a |-> bodyA, b |-> bodyB,
              impact |-> TRUE,
              cue |-> ImpactCue(relativeVelocity, enginePaused, soundEnabled),
              forceA |-> Mult(normal, -forceMagnitude),
              forceB |-> Mult(normal, forceMagnitude)]
    ELSE [a |-> bodyA, b |-> bodyB, impact |-> FALSE, cue |-> FALSE,
          forceA |-> NoForce, forceB |-> NoForce]

\* Engine.update reports a pair of bodies that began to touch (two distinct
\* bodies with distinct centres) and the handler runs on it.  The forces it
\* applies act in the integration of the next tick.
CollisionStart ==
    /\ runnerEnabled
    /\ \E bodyA \in WorldBodies, bodyB \in WorldBodies :
        /\ bodyA.label # bodyB.label
        /\ bodyA.position # bodyB.position
        /\ contacts' = <<HandlePair(bodyA, bodyB)>>
    /\ spawned' = FALSE
    /\ stray' = FALSE
    /\ UNCHANGED <<GAME_CONFIG, appVars, canvasVars, arenaVars, roundWinCalls,
                   maint, calls, arenaParts, enginePaused>>

NextContact == MaintTick \/ CollisionStart

SpecContact == InitMaint /\ [][NextContact]_vars

(***************************************************************************)
(* Step predicates used by the properties below.                           *)
(***************************************************************************)
\* the step is a tick of the runner
IsTickStep == rotationAngle' # rotationAngle
\* the step is a click on the sound button
IsSoundStep == soundEnabled' # soundEnabled
\* the step is the firing of the oldest pending celebration timeout
IsTimerStep == Len(timers) > 0 /\ Len(timers') = Len(timers) - 1
\* the step is a restart from the final screen
IsRestartStep == isGameOver /\ ~isGameOver'
\* the step called onRoundWin
IsRoundWinStep == roundWinCalls' = roundWinCalls + 1

BallIds(bs) == [i \in 1..Len(bs) |-> bs[i].id]


(***************************************************************************)
(* C1: in every round (from one spawn to the next) onRoundWin is called at *)
(* most once; a call sets the roundCompleted latch on that tick, and the   *)
(* latch is cleared only by a step that spawns the next round.             *)
(***************************************************************************)
C1_RoundWinAtMostOnce ==
    /\ [](roundWinCalls <= 1)
    /\ [][/\ IsRoundWinStep => (IsTickStep /\ ~roundCompleted /\ roundCompleted')
          /\ (roundCompleted /\ ~roundCompleted') => spawned'
          /\ (roundWinCalls' # roundWinCalls) => (IsRoundWinStep \/ spawned')]_vars

\* a round was won and its lone survivor is still ticking under the latch
C1_Witness ==
    /\ roundCompleted
    /\ roundWinCalls = 1
    /\ runnerEnabled
    /\ Len(balls) = 1
    /\ Len(timers) = 1

(***************************************************************************)
(* C2: a sound toggle changes nothing of the simulation: the live balls,   *)
(* the roundCompleted latch, the wins, the champion list and the arena     *)
(* rotation are the same after the toggle as before.                       *)
(***************************************************************************)
C2_SoundTogglePure ==
    [][IsSoundStep =>
        /\ balls' = balls
        /\ roundCompleted' = roundCompleted
        /\ countries' = countries
        /\ canvasCountries' = canvasCountries
        /\ champions' = champions
        /\ arenaAngle' = arenaAngle
        /\ sceneRotation' = sceneRotation]_vars

(***************************************************************************)
(* C3: a started, unfinished tournament whose round is unresolved          *)
(* eventually sees a round-win or a fresh spawn; this covers the round     *)
(* whose last balls left in one tick.                                      *)
(***************************************************************************)
C3_NoDeadlock ==
    (hasStarted /\ ~isGameOver /\ ~roundCompleted)
        ~> (roundCompleted \/ spawned)

(***************************************************************************)
(* C4: the firing of a celebration timeout that was pending when restart   *)
(* ran changes nothing of the freshly reset tournament: both rosters stay  *)
(* at wins = 0 and isChampion = false, the champion list stays empty,      *)
(* isGameOver stays false and the round spawned by the restart goes on     *)
(* with its balls.                                                         *)
(***************************************************************************)
C4_StaleTimerNoOp ==
    [][(IsTimerStep /\ Head(timers).stale) =>
        /\ countries' = countries
        /\ canvasCountries' = canvasCountries
        /\ champions' = champions
        /\ isGameOver' = isGameOver
        /\ balls' = balls
        /\ roundCompleted' = roundCompleted]_vars

(***************************************************************************)
(* C5: the champion list never holds more than MAX_CHAMPIONS_SHOWN         *)
(* records, and the timeout of the round-win that filled the list sets     *)
(* isGameOver and spawns no round.                                         *)
(***************************************************************************)
C5_ChampionQuota ==
    /\ [](Len(champions) <= MAX_CHAMPIONS_SHOWN)
    /\ [][(IsTimerStep /\ Len(champions) >= MAX_CHAMPIONS_SHOWN) =>
            (isGameOver' /\ ~spawned' /\ balls' = balls)]_vars

\* the quota was reached and the timeout ended the tournament
C5_Witness ==
    /\ isGameOver
    /\ Len(champions) = MAX_CHAMPIONS_SHOWN
    /\ Len(timers) = 0

C7_WinsMonotone ==
    [][~IsRestartStep =>
        \A i \in 1..NumCountries :
            /\ countries'[i].wins >= countries[i].wins
            /\ countries[i].isChampion => countries'[i].isChampion
            /\ canvasCountries'[i].wins >= canvasCountries[i].wins
            /\ canvasCountries[i].isChampion => canvasCountries'[i].isChampion]_vars

\* a contestant has been promoted and the tournament went on
C7_Witness ==
    /\ ~isGameOver
    /\ \E i \in 1..NumCountries :
            /\ countries[i].isChampion
            /\ canvasCountries[i].isChampion
    /\ \E i \in 1..NumCountries :
            /\ ~countries[i].isChampion
            /\ countries[i].wins > 0

(***************************************************************************)
(* C8: right after a spawn the world holds exactly one ball for each       *)
(* contestant of the canvas roster that is not a champion, and no ball for *)
(* a champion.                                                             *)
(***************************************************************************)
C8_SpawnOnePerNonChampion ==
    spawned =>
        \A i \in 1..NumCountries :
            Cardinality({k \in 1..Len(balls) : balls[k].id = canvasCountries[i].id})
                = IF canvasCountries[i].isChampion THEN 0 ELSE 1

\* a round spawned while a champion sits out
C8_Witness ==
    /\ spawned
    /\ \E i \in 1..NumCountries : canvasCountries[i].isChampion
    /\ Len(balls) = NumCountries - 1

(***************************************************************************)
(* C9: a step that processes a round-win for w adds exactly 1 to w's wins  *)
(* and leaves every other contestant as it was; a ChampionRecord with w's  *)
(* id, name and code is appended and w.isChampion becomes true exactly     *)
(* when the new win count is at least WINS_TO_CHAMPION and w was not a     *)
(* champion; otherwise the champion list is unchanged.                     *)
(***************************************************************************)
C9_RoundWinEffect ==
    [][IsRoundWinStep =>
        \E i \in 1..NumCountries :
            /\ lastWinner' = countries[i].id
            /\ countries'[i].wins = countries[i].wins + 1
            /\ countries'[i].id = countries[i].id
            /\ \A j \in 1..NumCountries : j # i => countries'[j] = countries[j]
            /\ IF countries[i].wins + 1 >= WINS_TO_CHAMPION /\ ~countries[i].isChampion
               THEN /\ Len(champions') = Len(champions) + 1
                    /\ SubSeq(champions', 1, Len(champions)) = champions
                    /\ champions'[Len(champions')].countryId = INITIAL_COUNTRIES[i].id
                    /\ champions'[Len(champions')].name = INITIAL_COUNTRIES[i].name
                    /\ champions'[Len(champions')].code = INITIAL_COUNTRIES[i].code
                    /\ countries'[i].isChampion
               ELSE /\ champions' = champions
                    /\ countries'[i].isChampion = countries[i].isChampion]_vars

\* a round-win was processed that promoted its winner, after an earlier
\* one that did not
C9_Witness ==
    /\ lastWinner # NoWinner
    /\ Len(timers) = 1
    /\ Len(champions) = 1
    /\ champions[1].countryId = lastWinner
    /\ \E i \in 1..NumCountries :
            countries[i].wins > 0 /\ ~countries[i].isChampion

(***************************************************************************)
(* C10: when the tournament is complete, exactly MAX_CHAMPIONS_SHOWN       *)
(* contestants have wins = WINS_TO_CHAMPION and isChampion = true, every   *)
(* other contestant has fewer wins, and the champion list holds exactly    *)
(* those contestants, once each, in non-decreasing wonAt.                  *)
(***************************************************************************)
C10_FinalStandings ==
    isGameOver =>
        LET champs == {i \in 1..NumCountries : countries[i].isChampion}
        IN  /\ Cardinality(champs) = MAX_CHAMPIONS_SHOWN
            /\ \A i \in 1..NumCountries :
                    IF i \in champs
                    THEN countries[i].wins = WINS_TO_CHAMPION
                    ELSE countries[i].wins < WINS_TO_CHAMPION
            /\ Len(champions) = MAX_CHAMPIONS_SHOWN
            /\ \A i \in champs :
                    Cardinality({k \in 1..Len(champions) :
                                    champions[k].countryId = countries[i].id}) = 1
            /\ \A k \in 1..Len(champions) - 1 :
                    champions[k].wonAt <= champions[k + 1].wonAt

\* the final screen, with a contestant that never won a round
C10_Witness ==
    /\ isGameOver
    /\ Len(champions) = MAX_CHAMPIONS_SHOWN
    /\ \E i \in 1..NumCountries : countries[i].wins = 0

(***************************************************************************)
(* C11: a started tournament eventually reaches TOURNAMENT_COMPLETE        *)
(* (isGameOver), under fair scheduling of the ticks, the eliminations and  *)
(* the celebration timer, whatever balls leave on each tick.               *)
(***************************************************************************)
C11_EventuallyComplete == hasStarted ~> isGameOver

(***************************************************************************)
(* C12: a restart from TOURNAMENT_COMPLETE gives every contestant wins = 0 *)
(* and isChampion = false, empties the champion list, clears lastWinner,   *)
(* isGameOver and the roundCompleted latch, and leaves a running round     *)
(* with exactly one ball per contestant of the full initial roster.        *)
(***************************************************************************)
C12_RestartResets ==
    [][IsRestartStep =>
        /\ Len(countries') = NumCountries
        /\ \A i \in 1..NumCountries :
            /\ countries'[i].id = INITIAL_COUNTRIES[i].id
            /\ countries'[i].wins = 0
            /\ ~countries'[i].isChampion
        /\ canvasCountries' = countries'
        /\ champions' = <<>>
        /\ lastWinner' = NoWinner
        /\ ~isGameOver'
        /\ ~roundCompleted'
        /\ runnerEnabled'
        /\ spawned'
        /\ BallIds(balls') = [i \in 1..NumCountries |-> INITIAL_COUNTRIES[i].id]
        /\ activeIds' = BallIds(balls')]_vars

\* the round a restart has just spawned (only a restart spawns a round of
\* the full roster after the start)
C12_Witness ==
    /\ spawned
    /\ hasStarted
    /\ ~isGameOver
    /\ ~roundCompleted
    /\ Len(balls) = NumCountries
    /\ \A i \in 1..NumCountries : countries[i].wins = 0

(***************************************************************************)
(* C13: a tick of an unlatched round that finds two or more balls and      *)
(* removes them all emits no round-win, changes no wins and no champion,   *)
(* and publishes the empty active-id list; no later tick of that round     *)
(* (the world stays empty until a spawn) emits a round-win either.         *)
(***************************************************************************)
C13_AllOutNoWinner ==
    [][/\ (IsTickStep /\ ~roundCompleted /\ Len(balls) >= 2 /\ Len(balls') = 0) =>
            /\ ~IsRoundWinStep
            /\ ~roundCompleted'
            /\ countries' = countries
            /\ champions' = champions
            /\ timers' = timers
            /\ lastWinner' = lastWinner
            /\ activeIds' = <<>>
       /\ (IsTickStep /\ ~roundCompleted /\ Len(balls) = 0) =>
            /\ ~IsRoundWinStep
            /\ ~roundCompleted'
            /\ countries' = countries
            /\ champions' = champions
            /\ timers' = timers
            /\ Len(balls') = 0]_vars

\* the last balls of an unlatched round left together: the empty list was
\* published and no winner was latched
C13_Witness ==
    /\ hasStarted
    /\ runnerEnabled
    /\ ~roundCompleted
    /\ Len(balls) = 0
    /\ activeIds = <<>>
    /\ roundWinCalls = 0
    /\ timers = <<>>

(***************************************************************************)
(* C14: a viewport resize replaces the arena body by one at the center and *)
(* radius of the new viewport, with the rotation angle of the arena it     *)
(* replaces, and changes nothing else: the balls (positions, velocities),  *)
(* the roundCompleted latch, the wins and the champions stay as they are   *)
(* and no ball is spawned; exactly one arena body is in the world after.   *)
(***************************************************************************)
IsResizeStep == <<width', height'>> # <<width, height>>

C14_ResizeFrame ==
    [][IsResizeStep =>
        /\ arenaGeom' = <<width' \div 2, height' \div 2,
                          Max(60, Min(width', height' - 80) \div 2 - 20)>>
        /\ arenaAngle' = arenaAngle
        /\ arenaCount' = 1
        /\ balls' = balls
        /\ roundCompleted' = roundCompleted
        /\ countries' = countries
        /\ canvasCountries' = canvasCountries
        /\ champions' = champions
        /\ ~spawned'
        /\ UNCHANGED <<activeIds, lastWinner, isGameOver, hasStarted, timers,
                       runnerEnabled, rotationAngle, sceneRotation,
                       roundWinCalls>>]_vars

\* an active round, resized after its spawn in the tall viewport and before
\* its first tick, with the arena turned by earlier ticks
C14_Witness ==
    /\ hasStarted
    /\ ~isGameOver
    /\ ~roundCompleted
    /\ height = 200
    /\ Len(balls) >= 2
    /\ \A i \in 1..Len(balls) : balls[i].pos = <<100, 300>>
    /\ arenaAngle = 1
    /\ arenaGeom = <<100, 100, 60>>
    /\ arenaCount = 1

(***************************************************************************)
(* C15: after a round-win that does not fill the champion quota no round   *)
(* is spawned before the celebration timer fires; when it fires it spawns  *)
(* exactly one round, whose balls are exactly the contestants that are not *)
(* champions after the win was applied (a contestant the win promoted gets *)
(* no ball), and it clears the roundCompleted latch.                       *)
(***************************************************************************)
C15_NextRoundAfterDelay ==
    [][/\ (Len(timers) > 0 /\ spawned') => IsTimerStep
       /\ (IsTimerStep /\ Len(champions) < MAX_CHAMPIONS_SHOWN) =>
            /\ spawned'
            /\ ~roundCompleted'
            /\ ~isGameOver'
            /\ canvasCountries' = countries
            /\ Len(balls') = Cardinality({i \in 1..NumCountries :
                                            ~countries[i].isChampion})
            /\ \A i \in 1..NumCountries :
                ~countries[i].isChampion <=>
                    (\E k \in 1..Len(balls') : balls'[k].id = countries[i].id)
            /\ \A k \in 1..Len(balls') : balls'[k].pos = <<Cx(width), Cy(height)>>
            /\ activeIds' = BallIds(balls')]_vars

\* the round spawned by the timer after the win that promoted the first
\* champion: the champion has no ball
C15_Witness ==
    /\ spawned
    /\ hasStarted
    /\ ~isGameOver
    /\ ~roundCompleted
    /\ Len(champions) = 1
    /\ lastWinner = NoWinner
    /\ timers = <<>>
    /\ Len(balls) = NumCountries - 1
    /\ \A k \in 1..Len(balls) : balls[k].id # champions[1].countryId

(***************************************************************************)
(* C16: the first round is spawned by the start signal: while hasStarted   *)
(* is false no ball exists, and handleStartGame spawns one ball for every  *)
(* contestant of the full initial roster and leaves a running round.       *)
(***************************************************************************)
IsStartStep == ~hasStarted /\ hasStarted'

C17_BadConfigRejected ==
    (GAME_CONFIG.WINS_TO_CHAMPION <= 0 \/ GAME_CONFIG.MAX_CHAMPIONS_SHOWN <= 0) =>
        /\ ~spawned
        /\ Len(balls) = 0
        /\ Len(champions) = 0
        /\ \A i \in 1..Len(countries) :
            countries[i].wins = 0 /\ ~countries[i].isChampion

(***************************************************************************)
(* C18: a call of handleRoundWin with an id that matches no contestant of  *)
(* the roster is a no-op: wins, isChampion, the champion list, lastWinner  *)
(* and isGameOver are unchanged, no celebration timer is scheduled and no  *)
(* round is spawned by it.                                                 *)
(***************************************************************************)
C18_UnknownIdNoOp ==
    [][stray' =>
        /\ countries' = countries
        /\ canvasCountries' = canvasCountries
        /\ champions' = champions
        /\ lastWinner' = lastWinner
        /\ isGameOver' = isGameOver
        /\ timers' = timers
        /\ ~spawned'
        /\ balls' = balls
        /\ roundCompleted' = roundCompleted]_vars

\* the call arrived in a running round with a champion already crowned
C18_Witness ==
    /\ stray
    /\ hasStarted
    /\ ~isGameOver
    /\ ~roundCompleted
    /\ Len(balls) >= 2
    /\ Len(champions) = 1

(***************************************************************************)
(* C19: at the end of the maintenance pass of a tick every ball still      *)
(* active has speed at most MAX_SPEED: a ball that was faster has its      *)
(* velocity rescaled to magnitude exactly MAX_SPEED with the direction     *)
(* unchanged, and the cap leaves the velocity of a ball at or below        *)
(* MAX_SPEED as it was.                                                    *)
(***************************************************************************)
\* v and u point the same way
SameDirection(v, u) ==
    /\ v[1] * u[2] = v[2] * u[1]
    /\ v[1] * u[1] + v[2] * u[2] > 0

C19_SpeedCapped ==
    \A i \in 1..Len(maint) :
        /\ ~maint[i].removed => Speed2(maint[i].vel) <= 15 * 15
        /\ Speed2(maint[i].velBefore) > 15 * 15 =>
            /\ Speed2(maint[i].vel) = 15 * 15
            /\ SameDirection(maint[i].velBefore, maint[i].vel)
        /\ Speed2(maint[i].velBefore) <= 15 * 15 =>
            maint[i].vel = maint[i].velBefore

\* a tick has capped an active ball moving at speed 30 and left another at
\* exactly MAX_SPEED alone
C19_Witness ==
    /\ Len(maint) = 2
    /\ ~maint[1].removed
    /\ maint[1].velBefore = <<-18, 24>>
    /\ maint[1].vel = <<-9, 12>>
    /\ ~maint[2].removed
    /\ maint[2].velBefore = <<9, -12>>
    /\ maint[2].vel = <<9, -12>>

(***************************************************************************)
(* C20: on every tick a ball is removed from the world and left out of the *)
(* active list if and only if its position is outside the viewport         *)
(* rectangle expanded by buffer on one of its four sides: left of -buffer, *)
(* right of width + buffer, above -buffer or below height + buffer.        *)
(***************************************************************************)
OutsideExpandedViewport(pos, w, h) ==
    \/ pos[1] < -150
    \/ pos[1] > w + 150
    \/ pos[2] < -150
    \/ pos[2] > h + 150

C20_RemovedIffOutside ==
    \A i \in 1..Len(maint) :
        /\ maint[i].removed <=> OutsideExpandedViewport(maint[i].pos, width, height)
        /\ maint[i].removed <=>
            ~(\E k \in 1..Len(balls) : balls[k].id = maint[i].id)

(***************************************************************************)
(* C21-C30                                                                 *)
(***************************************************************************)
\* the ids of the balls the last maintenance pass left in the world, in order
LiveAfterPass ==
    LET kept == SelectSeq(maint, LAMBDA b : ~b.removed)
    IN  [i \in 1..Len(kept) |-> kept[i].id]

\* the onElimination calls of the last tick
EliminationCalls == SelectSeq(calls, LAMBDA c : c.fn = "onElimination")

\* C21: a tick invokes the elimination callback if and only if it removed at
\* least one ball, at most once, and with exactly the ids of the balls that
\* are still live after the removals; every ball present at the start of the
\* tick is either removed or listed in that argument, never both and never
\* neither.
C21_EliminationCallback ==
    /\ Len(EliminationCalls) <= 1
    /\ Len(EliminationCalls) = 1 <=> \E i \in 1..Len(maint) : maint[i].removed
    /\ \A k \in 1..Len(EliminationCalls) :
        /\ EliminationCalls[k].arg = LiveAfterPass
        /\ \A i \in 1..Len(maint) :
            maint[i].removed <=>
                ~\E j \in 1..Len(EliminationCalls[k].arg) :
                    EliminationCalls[k].arg[j] = maint[i].id
    /\ maint # <<>> => BallIds(balls) = LiveAfterPass

\* a tick removed the first ball and kept the second: the callback was
\* invoked once, with the second ball's id alone
C21_Witness ==
    /\ Len(maint) = 2
    /\ maint[1].removed
    /\ ~maint[2].removed
    /\ Len(EliminationCalls) = 1
    /\ EliminationCalls[1].arg = <<maint[2].id>>

InitSolo ==
    Mounted([WINS_TO_CHAMPION |-> 1, MAX_CHAMPIONS_SHOWN |-> NumCountries,
             GAP_SIZE_DEGREES |-> GAP_SIZE_DEGREES])

SpecSolo == InitSolo /\ [][Next]_vars

\* the balls of the world that the bounds test of the tick keeps
InsideBalls == SelectSeq(balls, LAMBDA b : ~OutOfBounds(b, width, height))

\* C23: on a tick after whose removals exactly one ball is active while the
\* round is not completed, round-win is emitted in that tick for that
\* ball's id and the round-completed latch is set, also when the round was
\* spawned with a single contestant and nothing was eliminated; on a tick
\* with two or more active balls no round-win is emitted.
C23_LastBallWins ==
    [][IsTickStep =>
        /\ (Len(InsideBalls) = 1 /\ ~roundCompleted) =>
              /\ roundCompleted'
              /\ roundWinCalls' = roundWinCalls + 1
              /\ lastWinner' = InsideBalls[1].id
        /\ Len(InsideBalls) >= 2 =>
              /\ roundWinCalls' = roundWinCalls
              /\ roundCompleted' = roundCompleted
              /\ UNCHANGED <<countries, champions, timers>>]_vars

\* a round spawned with one eligible contestant has been won by its first
\* tick: nothing was eliminated in it
C23_Witness ==
    /\ Len(EligibleCountries(canvasCountries)) = 1
    /\ roundCompleted
    /\ roundWinCalls = 1
    /\ lastWinner = EligibleCountries(canvasCountries)[1].id
    /\ activeIds = Ids(EligibleCountries(canvasCountries))
    /\ Len(balls) = 1

\* the step is an Engine.update of the runner: it is none of the steps the
\* user, the window or a timeout takes
IsEngineStep ==
    ~(IsStartStep \/ IsResizeStep \/ IsSoundStep \/ IsTimerStep
        \/ IsRestartStep)

\* C24: the rotation angle of the arena advances by exactly one
\* ARENA_ROTATION_SPEED in every physics tick and is changed by nothing
\* else: a resize, a sound toggle, a start, a spawn of a round and a restart
\* leave it as it is, and while the simulation is paused it stands still.
\* (Angles are counted in units of ARENA_ROTATION_SPEED, modulo
\* RotationPeriod.)
C24_RotationOnlyByTick ==
    /\ [](arenaAngle = sceneRotation /\ rotationAngle = sceneRotation)
    /\ [][/\ IsEngineStep =>
                /\ runnerEnabled
                /\ arenaAngle' = (arenaAngle + 1) % RotationPeriod
                /\ sceneRotation' = (sceneRotation + 1) % RotationPeriod
          /\ ~IsEngineStep => UNCHANGED <<arenaAngle, sceneRotation>>
          /\ ~runnerEnabled => UNCHANGED <<arenaAngle, sceneRotation>>]_vars

\* the tournament is complete (the simulation is paused), the sound has been
\* switched off (the engine was set up again) and the arena was rebuilt for
\* another viewport: the arena stands at a nonzero angle
C24_Witness ==
    /\ arenaAngle # 0
    /\ isGameOver
    /\ ~soundEnabled
    /\ ~runnerEnabled
    /\ arenaCount = 1
    /\ arenaGeom = ArenaGeometry(200, 600)

\* C25: while the sound is enabled and the simulation is running (started,
\* tournament not complete), every tick that removes a ball plays the
\* elimination cue: the paused state the cue consults is the current one.
C25_CueWhenRunning ==
    [][(/\ IsEngineStep
        /\ Len(balls') < Len(balls)
        /\ soundEnabled
        /\ ~IsPaused(hasStarted, isGameOver))
         => CuePlays(enginePaused, soundEnabled)]_vars

\* C26: for every pair of a collision-start event the push is applied if and
\* only if both bodies are balls, whatever the impact speed and the sound
\* guard: both balls get a force of the same fixed magnitude, A along the
\* line from B's centre to A's (away from B) and B along the opposite
\* direction; a pair with a wall part gets no push and raises no impact
\* event.
C26_PushIffBallPair ==
    \A k \in 1..Len(contacts) :
        LET c == contacts[k]
        IN  IF c.a.label[1] = "ball-" /\ c.b.label[1] = "ball-"
            THEN /\ c.forceA.mag = forceMagnitude
                 /\ c.forceB.mag = forceMagnitude
                 /\ c.forceA.along = VecSub(c.a.position, c.b.position)
                 /\ c.forceB.along = VecSub(c.b.position, c.a.position)
                 /\ c.impact
            ELSE /\ c.forceA = NoForce
                 /\ c.forceB = NoForce
                 /\ ~c.impact
                 /\ ~c.cue

\* two balls at rest touched while the sound guard was closed: no cue, and
\* both were pushed apart all the same
C26_Witness ==
    /\ Len(contacts) = 1
    /\ contacts[1].a.label[1] = "ball-"
    /\ contacts[1].b.label[1] = "ball-"
    /\ contacts[1].a.velocity = contacts[1].b.velocity
    /\ ~contacts[1].cue
    /\ contacts[1].forceA.mag = forceMagnitude
    /\ contacts[1].forceB.mag = forceMagnitude
    /\ contacts[1].forceA.along # contacts[1].forceB.along

(***************************************************************************)
(* The arena as createArena builds it, for the gap widths of GapWidths: at *)
(* mount and at every resize.                                              *)
(***************************************************************************)
GapWidths == {6, 30, 45, 90}

InitArena ==
    \E g \in GapWidths :
        /\ MountedApp([WINS_TO_CHAMPION |-> WINS_TO_CHAMPION,
                       MAX_CHAMPIONS_SHOWN |-> MAX_CHAMPIONS_SHOWN,
                       GAP_SIZE_DEGREES |-> g])
        /\ arenaParts = createArena(g)

ArenaResize == ResizeBody(TRUE)

NextArena ==
    \/ StartGame
    \/ Tick
    \/ ArenaResize

SpecArena == InitArena /\ [][NextArena]_vars

\* the arc segment of the wall a part stands in: the wall is divided into
\* `segments` arcs of one step each, the k-th centred at angle k * step
ArcSegment(a) == ((a + ArenaStep \div 2) \div ArenaStep) % segments

\* C27: the arena has exactly one contiguous run of non-colliding parts
\* (sensor, mask 0), which starts at local angle 0 and covers the configured
\* gap width; every other part is solid; and no solid part stands in an arc
\* segment of the gap.
C27_SingleGapRun ==
    LET n == Len(arenaParts)
        gap == GapSizeRad(GAME_CONFIG.GAP_SIZE_DEGREES)
    IN  /\ n > 0
        /\ arenaParts[1].a = 0
        /\ \E m \in 1..n :
            \A k \in 1..n : arenaParts[k].isSensor <=> k <= m
        /\ \A k \in 1..n :
            /\ arenaParts[k].isSensor <=> arenaParts[k].a < gap
            /\ arenaParts[k].isSensor <=> arenaParts[k].mask = 0
        /\ \A k \in 1..n, j \in 1..n :
            (arenaParts[k].isSensor /\ ~arenaParts[j].isSensor) =>
                ArcSegment(arenaParts[j].a) # ArcSegment(arenaParts[k].a)

\* C28: on every tick a ball whose speed is below MIN_SPEED (0.5) gets the
\* nudge force, whose vertical component points strictly upwards (negative
\* y); a ball at or above MIN_SPEED gets no force; and a ball that the tick
\* clamped to MAX_SPEED is not nudged in that tick.
C28_NudgeIffSlow ==
    \A i \in 1..Len(maint) :
        /\ 4 * Speed2(maint[i].vel) < 1 => maint[i].force[2] < 0
        /\ 4 * Speed2(maint[i].vel) >= 1 => maint[i].force = <<0, 0>>
        /\ Speed2(maint[i].velBefore) > MAX_SPEED * MAX_SPEED =>
              /\ maint[i].vel # maint[i].velBefore
              /\ maint[i].force = <<0, 0>>

\* a tick found one ball at rest and one faster than MAX_SPEED: the first
\* was nudged up and sideways, the second was clamped and not nudged
C28_Witness ==
    /\ Len(maint) = 2
    /\ maint[1].velBefore = <<0, 0>>
    /\ maint[1].force[2] < 0
    /\ maint[1].force[1] # 0
    /\ Speed2(maint[2].velBefore) > MAX_SPEED * MAX_SPEED
    /\ Speed2(maint[2].vel) = MAX_SPEED * MAX_SPEED
    /\ maint[2].force = <<0, 0>>

\* C29: in every state of the master roster a contestant is a champion if
\* and only if its wins have reached the champion threshold, and no
\* contestant has more wins than the threshold.
C29_ChampionIffThreshold ==
    \A i \in 1..Len(countries) :
        /\ countries[i].isChampion <=>
              countries[i].wins >= GAME_CONFIG.WINS_TO_CHAMPION
        /\ countries[i].wins <= GAME_CONFIG.WINS_TO_CHAMPION

\* the roster holds a champion with exactly the threshold of wins beside a
\* contestant that has won a round and is no champion
C29_Witness ==
    \E i \in 1..Len(countries), j \in 1..Len(countries) :
        /\ countries[i].isChampion
        /\ countries[i].wins = GAME_CONFIG.WINS_TO_CHAMPION
        /\ ~countries[j].isChampion
        /\ countries[j].wins > 0
        /\ countries[j].wins < GAME_CONFIG.WINS_TO_CHAMPION

\* C30: the champion list holds no two records of the same contestant, the
\* contestants it lists are exactly those the master roster marks as
\* champions, and between restarts it only grows, by one record appended at
\* its end.
C30_ChampionListAppendOnly ==
    /\ [](/\ \A k \in 1..Len(champions), l \in 1..Len(champions) :
                champions[k].countryId = champions[l].countryId => k = l
          /\ {champions[k].countryId : k \in 1..Len(champions)} =
                {countries[i].id :
                    i \in {j \in 1..Len(countries) : countries[j].isChampion}})
    /\ [][~IsRestartStep =>
            \/ champions' = champions
            \/ /\ Len(champions') = Len(champions) + 1
               /\ SubSeq(champions', 1, Len(champions)) = champions]_vars

\* a second champion has been appended behind the first
C30_Witness ==
    /\ Len(champions) = 2
    /\ champions[1].countryId # champions[2].countryId
    /\ champions[1].wonAt < champions[2].wonAt
    /\ \A i \in 1..Len(countries) :
        countries[i].isChampion <=>
            countries[i].id \in {champions[1].countryId, champions[2].countryId}

(***************************************************************************)
(* C31-C36                                                                 *)
(***************************************************************************)
\* C31: at most one celebration timeout is pending at any time: a round-win
\* is processed only when no timeout of an earlier one is pending, and no
\* timeout is pending while the tournament is complete (the only state in
\* which the restart control is rendered).
C31_OneTimerPending ==
    /\ [](Len(timers) <= 1 /\ (isGameOver => Len(timers) = 0))
    /\ [][IsRoundWinStep => Len(timers) = 0 /\ Len(timers') = 1]_vars

\* a round has been won and its celebration timeout is pending; the round
\* is locked, so the ticks that follow cannot win it again
C31_Witness ==
    /\ Len(timers) = 1
    /\ roundCompleted
    /\ roundWinCalls = 1
    /\ runnerEnabled
    /\ Len(balls) = 1
    /\ lastWinner = balls[1].id

\* wins and isChampion of every contestant of a roster
Standing(cs) ==
    [i \in 1..Len(cs) |->
        [id |-> cs[i].id, wins |-> cs[i].wins, isChampion |-> cs[i].isChampion]]

\* C32: whenever a round is running and unresolved (started, tournament not
\* complete, roundCompleted false, no celebration timeout pending) the
\* roster held by the canvas equals the master roster in every contestant's
\* wins and isChampion; the two differ only during a celebration window and
\* after the tournament is complete.
C32_SnapshotEqualsRoster ==
    /\ (hasStarted /\ ~isGameOver /\ ~roundCompleted /\ Len(timers) = 0)
          => Standing(canvasCountries) = Standing(countries)
    /\ Standing(canvasCountries) # Standing(countries)
          => (Len(timers) > 0 \/ isGameOver)

\* the second round is running: the canvas holds the roster with the first
\* round's win, as the master roster does
C32_Witness ==
    /\ hasStarted
    /\ ~isGameOver
    /\ ~roundCompleted
    /\ Len(timers) = 0
    /\ Len(balls) > 1
    /\ \E i \in 1..Len(countries) : countries[i].wins > 0
    /\ Standing(canvasCountries) = Standing(countries)

\* the set of the ids of a sequence of balls
BallIdSet(bs) == {bs[i].id : i \in 1..Len(bs)}

\* C33: the ids of the live balls are pairwise distinct and belong to
\* contestants that are no champions in the roster the canvas held at the
\* last spawn; within a round (on every step that spawns nothing) the live
\* set gains no ball; and the id passed to a round-win is one of the balls
\* spawned for the round.
C33_LiveBallsOfTheRound ==
    /\ [](/\ \A i \in 1..Len(balls), j \in 1..Len(balls) :
                balls[i].id = balls[j].id => i = j
          /\ BallIdSet(balls) \subseteq
                {c.id : c \in {canvasCountries[k] : k \in
                    {l \in 1..Len(canvasCountries) :
                        ~canvasCountries[l].isChampion}}})
    /\ [][/\ ~spawned' => BallIdSet(balls') \subseteq BallIdSet(balls)
          /\ IsRoundWinStep =>
                /\ lastWinner' \in BallIdSet(balls)
                /\ ~\E k \in 1..Len(canvasCountries) :
                        /\ canvasCountries[k].id = lastWinner'
                        /\ canvasCountries[k].isChampion]_vars

\* in a round spawned without the first champion, a ball has been removed
\* and the ball that is left, one of the two spawned, has won the round
C33_Witness ==
    /\ \E k \in 1..Len(canvasCountries) : canvasCountries[k].isChampion
    /\ Len(EligibleCountries(canvasCountries)) = 2
    /\ Len(balls) = 1
    /\ balls[1].id \in {c.id : c \in {EligibleCountries(canvasCountries)[k] :
                                        k \in 1..2}}
    /\ roundCompleted
    /\ lastWinner = balls[1].id
    /\ ~spawned

\* C34: while the simulation is paused (before the start, or after the
\* tournament is complete) no tick runs: whatever resizes and sound toggles
\* happen in that period, the arena rotation, the set of live balls, the
\* wins, the champions and the roundCompleted latch are unchanged and no
\* elimination or round-win callback is invoked.
C34_FrozenWhilePaused ==
    [][(IsPaused(hasStarted, isGameOver) /\ ~IsStartStep /\ ~IsRestartStep) =>
        /\ UNCHANGED <<arenaAngle, sceneRotation, rotationAngle>>
        /\ BallIdSet(balls') = BallIdSet(balls)
        /\ UNCHANGED <<countries, champions, roundCompleted>>
        /\ UNCHANGED <<activeIds, roundWinCalls, lastWinner, timers>>]_vars

\* C35: after every tick and after every spawn the list of active ids
\* published to the scoreboard holds exactly the ids of the balls that are
\* live in the world, over any sequence of ticks, spawns, restarts, resizes
\* and sound toggles.
C35_PublishedEqualsLive ==
    [][(IsEngineStep \/ spawned') =>
        {activeIds'[i] : i \in 1..Len(activeIds')} = BallIdSet(balls')]_vars

\* C36: on a tick that removes a ball and leaves exactly one active ball
\* (the round not yet completed), the elimination callback is invoked
\* first, with the list that holds the winner's id alone, and the round-win
\* callback second, with that id; both are invoked within that tick.
C36_EliminationBeforeWin ==
    [][(/\ IsTickStep
        /\ ~roundCompleted
        /\ Len(InsideBalls) = 1
        /\ Len(InsideBalls) < Len(balls)) =>
            calls' = <<[fn |-> "onElimination", arg |-> <<InsideBalls[1].id>>],
                       [fn |-> "onRoundWin", arg |-> <<InsideBalls[1].id>>]>>]_vars

\* a tick has removed the first ball, kept the second, and invoked the two
\* callbacks in this order, both with the second ball's id
C36_Witness ==
    /\ Len(maint) = 2
    /\ maint[1].removed
    /\ ~maint[2].removed
    /\ Len(calls) = 2
    /\ calls[1] = [fn |-> "onElimination", arg |-> <<maint[2].id>>]
    /\ calls[2] = [fn |-> "onRoundWin", arg |-> <<maint[2].id>>]
    /\ roundCompleted
    /\ activeIds = <<maint[2].id>>
    /\ lastWinner = maint[2].id

====
